---- MODULE Spec2Model ----
(***************************************************************************)
(* The game state machine of the poker session manager: the process-wide   *)
(* Game object (app/init.py) and the request handlers that mutate it       *)
(* (app/playapi.py): join_game, place_bet, fold, is_your_turn, start_game, *)
(* end_game, game_status, and the turn engine advance_turn.                *)
(*                                                                         *)
(* Chip amounts are floats in the source; every amount that occurs here is *)
(* a whole number far below 2^53, so integer arithmetic is exact.          *)
(* current_turn_index is 0-based as in the source; sequences are 1-based,  *)
(* so the name at the index is current_turn_order[current_turn_index + 1]. *)
(*                                                                         *)
(* A Game has a chip side (flags, balances, bets, pot, turn order: the     *)
(* variable game) and a card side (deck, community cards, the players'     *)
(* hands: the variable cards). No handler reads a card to decide about     *)
(* chips or a chip to decide about cards; what the two sides share is the  *)
(* player list and the is_active flags. Spec follows the chip side,        *)
(* SpecCards follows the card side together with everything it shares.     *)
(***************************************************************************)
EXTENDS Integers, Sequences, FiniteSets, TLC

VARIABLES game, acct, cards, threads

vars == <<game, acct, cards, threads>>

\* ------------------------------------------------------------------ bounds

\* The clients, in the order in which they join a game. Names are compared
\* for equality only, so any other join order is a renaming of this one.
Seats == <<"Alice", "Bob", "Carol">>

\* Names a request may carry; one that has not joined is an unknown player.
Names == {Seats[k] : k \in 1..Len(Seats)}

\* Amounts a client may send with place_bet: a non-positive one, one that a
\* fresh balance covers several times, and one that drains a fresh balance.
Amounts == {0, 300, 1000}

\* Accepted bets per Game object (top-ups let balances grow without bound
\* otherwise).
MaxBets == 2

\* Balance given to a joining player.
JoinBalance == 1000

\* Floor of the balance top-up in place_bet.
TopUpFloor == 1000

None == "None"

\* The ranks and suits a deck is built from (13 ranks and 4 suits in the
\* source): six cards, so that two hands and the community cards use a
\* deck up. They hold the two cards compare_cards falls back on.
ranks == <<"2", "K", "A">>

suits == <<"hearts", "spades">>

Ranks == {ranks[k] : k \in 1..Len(ranks)}

Suits == {suits[k] : k \in 1..Len(suits)}

\* The clients of the card side, in the order in which they join: two of
\* the names differ in case only.
CardSeats == <<"Alice", "alice", "Bob">>

CardNames == {CardSeats[k] : k \in 1..Len(CardSeats)}

\* ------------------------------------------------------------ data model

Player(name) ==
    [name |-> name, balance |-> JoinBalance, current_bet |-> 0,
     is_active |-> TRUE, is_all_in |-> FALSE, has_acted |-> FALSE]

\* The Game that get_game builds when there is none or the current one is
\* inactive. current_stage is the stage as it is read: initialize_game sets
\* "pre_flop", and where the attribute is missing the readers take "pre_flop".
NewGame ==
    [is_active |-> FALSE, players |-> <<>>, pot |-> 0, current_bet |-> 0,
     current_turn_order |-> <<>>, current_turn_index |-> 0,
     current_stage |-> "pre_flop"]

\* Variant of get_game that hands out the current Game whatever its state.
get_game_keeping(g) == g

get_game(g) == IF ~g.is_active THEN NewGame ELSE g

\* Variant of initialize_game that leaves the new game inactive.
initialize_game_inactive == NewGame

initialize_game == [NewGame EXCEPT !.is_active = TRUE]

\* str.lower on a client's name.
lower(name) ==
    CASE name = "Alice" -> "alice"
      [] name = "Bob" -> "bob"
      [] name = "Carol" -> "carol"
      [] OTHER -> name

\* Variant of find_player_by_name that compares names without their case.
find_player_ignoring_case(g, name) ==
    LET hits == {i \in 1..Len(g.players) : lower(g.players[i].name) = lower(name)}
    IN IF hits = {} THEN 0 ELSE CHOOSE i \in hits : \A j \in hits : i <= j

\* Variant of find_player_by_name that yields the last player looked at when
\* no player is called name.
find_player_leaking(g, name) ==
    LET hits == {i \in 1..Len(g.players) : g.players[i].name = name}
    IN IF hits = {} THEN Len(g.players)
       ELSE CHOOSE i \in hits : \A j \in hits : i <= j

\* Position (1-based) of the first player called name, 0 when there is none.
find_player_by_name(g, name) ==
    LET hits == {i \in 1..Len(g.players) : g.players[i].name = name}
    IN IF hits = {} THEN 0 ELSE CHOOSE i \in hits : \A j \in hits : i <= j

RECURSIVE SelectActive(_)
SelectActive(ps) ==
    IF ps = <<>> THEN <<>>
    ELSE IF Head(ps).is_active
         THEN <<Head(ps).name>> \o SelectActive(Tail(ps))
         ELSE SelectActive(Tail(ps))

\* [p.name for p in game.players if p.is_active]
ActiveNames(g) == SelectActive(g.players)

ActiveCount(g) == Cardinality({i \in 1..Len(g.players) : g.players[i].is_active})

\* Variant of rebuild_if_stale that lists every player, folded or not.
rebuild_all_players(g) ==
    IF g.current_turn_order = <<>>
    THEN [g EXCEPT !.current_turn_order =
                       [k \in 1..Len(g.players) |-> g.players[k].name],
                   !.current_turn_index = 0]
    ELSE g

\* The turn order is rebuilt from the active players when it is empty.
rebuild_if_stale(g) ==
    IF g.current_turn_order = <<>>
    THEN [g EXCEPT !.current_turn_order = ActiveNames(g), !.current_turn_index = 0]
    ELSE g

\* ----------------------------------------------------------- turn engine

\* Variant of Eligible that does not look at is_all_in.
EligibleIgnoringAllIn(g, name) ==
    LET hits == {i \in 1..Len(g.players) : g.players[i].name = name}
    IN hits # {} /\ \A i \in hits : g.players[i].is_active

\* next_player and next_player.is_active and not next_player.is_all_in
Eligible(g, name) ==
    LET i == find_player_by_name(g, name)
    IN i # 0 /\ g.players[i].is_active /\ ~g.players[i].is_all_in

\* Variant of the loop that takes the next position whoever is there.
AdvanceNoSkip(g, idx, original, count) ==
    [index |-> (idx + 1) % Len(g.current_turn_order), steps |-> count + 1]

\* The while loop of advance_turn: idx is the index so far, count the
\* iterations done. Yields the final index and the number of index steps.
RECURSIVE AdvanceLoop(_, _, _, _)
AdvanceLoop(g, idx, original, count) ==
    LET n == Len(g.current_turn_order) IN
    IF count >= n THEN [index |-> idx, steps |-> count]
    ELSE LET nidx == (idx + 1) % n
             nm == g.current_turn_order[nidx + 1]
         IN IF nidx = original THEN [index |-> nidx, steps |-> count + 1]
            ELSE IF Eligible(g, nm) THEN [index |-> nidx, steps |-> count + 1]
            ELSE AdvanceLoop(g, nidx, original, count + 1)

AnyEligible(g) ==
    \E i \in 1..Len(g.players) : g.players[i].is_active /\ ~g.players[i].is_all_in

\* Index steps taken by advance_turn(g).
advance_steps(g) ==
    IF g.current_turn_order = <<>> \/ ~AnyEligible(g) THEN 0
    ELSE AdvanceLoop(g, g.current_turn_index, g.current_turn_index, 0).steps

advance_turn(g) ==
    IF g.current_turn_order = <<>>
    THEN [g EXCEPT !.current_turn_order = ActiveNames(g), !.current_turn_index = 0]
    ELSE IF ~AnyEligible(g) THEN g
    ELSE [g EXCEPT !.current_turn_index =
              AdvanceLoop(g, g.current_turn_index, g.current_turn_index, 0).index]

\* The name the responses report as next_turn / current_player.
CurrentName(g) ==
    IF g.current_turn_order # <<>> /\ g.current_turn_index < Len(g.current_turn_order)
    THEN g.current_turn_order[g.current_turn_index + 1]
    ELSE None

\* ------------------------------------------------------- betting engine

Max(a, b) == IF a >= b THEN a ELSE b

\* Variant of top_up that leaves the balance as it is.
top_up_none(balance, amount) == balance

\* The balance the bet is taken from: topped up when the amount exceeds it.
top_up(balance, amount) ==
    IF amount > balance THEN Max(TopUpFloor, amount * 2) ELSE balance

\* place_bet up to the amount check: the game is fetched and activated, the
\* player (at position i) is activated, a stale turn order is rebuilt.
bet_prepare(g0, i) ==
    LET g1 == [get_game(g0) EXCEPT !.is_active = TRUE]
        g2 == [g1 EXCEPT !.players[i].is_active = TRUE]
    IN rebuild_if_stale(g2)

\* Variant of process_bet that adds the amount to the player's current_bet.
process_bet_adding(g, i, amount) ==
    [g EXCEPT !.players[i].balance =
                  (IF amount > @ THEN (IF amount * 2 > 1000 THEN amount * 2 ELSE 1000)
                   ELSE @) - amount,
              !.players[i].current_bet = @ + amount,
              !.pot = @ + amount]

\* Variant of process_bet that takes the amount off the balance and leaves
\* the pot as it is.
process_bet_no_pot(g, i, amount) ==
    [g EXCEPT !.players[i].balance = top_up(@, amount) - amount,
              !.players[i].current_bet = amount]

\* "Process the bet": balance, the player's current_bet, the pot.
process_bet(g, i, amount) ==
    [g EXCEPT !.players[i].balance = top_up(@, amount) - amount,
              !.players[i].current_bet = amount,
              !.pot = @ + amount]

\* Variant of raise_bet that raises the table's bet and resets no flag.
raise_bet_no_reset(g, i, amount, current_bet) ==
    IF amount > current_bet THEN [g EXCEPT !.current_bet = amount] ELSE g

\* Variant of raise_bet that takes every bet for a raise.
raise_bet_always(g, i, amount, current_bet) ==
    [g EXCEPT !.current_bet = amount,
              !.players = [j \in 1..Len(g.players) |->
                   IF j # i /\ g.players[j].is_active /\ ~g.players[j].is_all_in
                   THEN [g.players[j] EXCEPT !.has_acted = FALSE]
                   ELSE g.players[j]]]

\* "Update game's current bet if this is higher", against the table's
\* current_bet as read before the bet was processed.
raise_bet(g, i, amount, current_bet) ==
    IF amount > current_bet
    THEN [g EXCEPT !.current_bet = amount,
                   !.players = [j \in 1..Len(g.players) |->
                        IF j # i /\ g.players[j].is_active /\ ~g.players[j].is_all_in
                        THEN [g.players[j] EXCEPT !.has_acted = FALSE]
                        ELSE g.players[j]]]
    ELSE g

mark_acted(g, i) == [g EXCEPT !.players[i].has_acted = TRUE]

\* Variant of place_bet that takes a bet from the holder of the turn only.
place_bet_in_turn(g0, name, amount) ==
    LET g1 == [get_game(g0) EXCEPT !.is_active = TRUE]
        i == find_player_by_name(g1, name)
    IN IF i = 0
       THEN [game |-> g1, status |-> 404, note |-> "not_found", steps |-> 0]
       ELSE LET g2 == bet_prepare(g0, i) IN
            IF amount <= 0 \/ CurrentName(g2) # name
            THEN [game |-> g2, status |-> 400, note |-> "not_positive", steps |-> 0]
            ELSE LET g3 == process_bet(g2, i, amount)
                     g4 == raise_bet(g3, i, amount, g2.current_bet)
                     g5 == mark_acted(g4, i)
                 IN [game |-> advance_turn(g5), status |-> 200,
                     note |-> IF amount > g2.current_bet THEN "raise" ELSE "bet",
                     steps |-> advance_steps(g5)]

\* The local part of place_bet: the game it leaves and what it answers.
place_bet(g0, name, amount) ==
    LET g1 == [get_game(g0) EXCEPT !.is_active = TRUE]
        i == find_player_by_name(g1, name)
    IN IF i = 0
       THEN [game |-> g1, status |-> 404, note |-> "not_found", steps |-> 0]
       ELSE LET g2 == bet_prepare(g0, i) IN
            IF amount <= 0
            THEN [game |-> g2, status |-> 400, note |-> "not_positive", steps |-> 0]
            ELSE LET g3 == process_bet(g2, i, amount)
                     g4 == raise_bet(g3, i, amount, g2.current_bet)
                     g5 == mark_acted(g4, i)
                 IN [game |-> advance_turn(g5), status |-> 200,
                     note |-> IF amount > g2.current_bet THEN "raise" ELSE "bet",
                     steps |-> advance_steps(g5)]

\* list.remove: the sequence without its element at position k.
RemoveAt(seq, k) == SubSeq(seq, 1, k - 1) \o SubSeq(seq, k + 1, Len(seq))

\* Position (1-based) of name in the turn order, 0 when absent.
IndexOf(seq, name) ==
    LET hits == {k \in 1..Len(seq) : seq[k] = name}
    IN IF hits = {} THEN 0 ELSE CHOOSE k \in hits : \A j \in hits : k <= j

\* fold up to the flags: the game is fetched and activated, the player is
\* marked as having acted and made inactive.
fold_prepare(g0, i) ==
    LET g1 == [get_game(g0) EXCEPT !.is_active = TRUE]
    IN [g1 EXCEPT !.players[i].has_acted = TRUE, !.players[i].is_active = FALSE]

\* Variant of fold_remove that removes the folder and keeps the index.
fold_remove_no_renormalize(g, name) ==
    IF g.current_turn_order = <<>>
    THEN [g EXCEPT !.current_turn_order = ActiveNames(g), !.current_turn_index = 0]
    ELSE LET k == IndexOf(g.current_turn_order, name) IN
         IF k = 0 THEN g
         ELSE [g EXCEPT !.current_turn_order = RemoveAt(g.current_turn_order, k)]

\* Variant of fold_remove that renormalizes the index and keeps the folder
\* in the turn order.
fold_remove_keep_folder(g, name) ==
    IF g.current_turn_order = <<>>
    THEN [g EXCEPT !.current_turn_order = ActiveNames(g), !.current_turn_index = 0]
    ELSE [g EXCEPT !.current_turn_index = @ % Len(g.current_turn_order)]

\* "Initialize or update turn order": an empty order is rebuilt, otherwise
\* the folder is removed and the index renormalized.
fold_remove(g, name) ==
    IF g.current_turn_order = <<>>
    THEN [g EXCEPT !.current_turn_order = ActiveNames(g), !.current_turn_index = 0]
    ELSE LET k == IndexOf(g.current_turn_order, name) IN
         IF k = 0 THEN g
         ELSE LET order == RemoveAt(g.current_turn_order, k)
                  idx == k - 1
              IN IF idx <= g.current_turn_index /\ order # <<>>
                 THEN [g EXCEPT !.current_turn_order = order,
                                !.current_turn_index = @ % Len(order)]
                 ELSE [g EXCEPT !.current_turn_order = order]

\* Position of the first active player (active_players[0]).
FirstActive(g) ==
    CHOOSE i \in 1..Len(g.players) :
        /\ g.players[i].is_active
        /\ \A j \in 1..Len(g.players) : g.players[j].is_active => i <= j

\* Variant of fold_payout that pays the winner and leaves the pot.
fold_payout_keep_pot(g) ==
    [g EXCEPT !.players[FirstActive(g)].balance = @ + g.pot]

\* "Game ends, winner takes the pot".
fold_payout(g) ==
    [g EXCEPT !.players[FirstActive(g)].balance = @ + g.pot, !.pot = 0]

\* Variant of fold_finish that advances the turn after the payout as well.
fold_finish_advancing(g) ==
    IF ActiveCount(g) = 1 THEN advance_turn(fold_payout(g))
    ELSE IF ActiveCount(g) > 0 THEN advance_turn(g)
    ELSE g

\* What fold does after the removal: the payout to a single survivor, or
\* the advance when active players remain.
fold_finish(g) ==
    IF ActiveCount(g) = 1 THEN fold_payout(g)
    ELSE IF ActiveCount(g) > 0 THEN advance_turn(g)
    ELSE g

\* The local part of fold.
fold(g0, name) ==
    LET g1 == [get_game(g0) EXCEPT !.is_active = TRUE]
        i == find_player_by_name(g1, name)
    IN IF i = 0
       THEN [game |-> g1, mid |-> g1, status |-> 404, note |-> "not_found",
             winner |-> None, steps |-> 0]
       ELSE LET g2 == fold_prepare(g0, i)
                g3 == fold_remove(g2, name)
            IN [game |-> fold_finish(g3), mid |-> g3, status |-> 200,
                note |-> IF ActiveCount(g3) = 1 THEN "winner"
                         ELSE IF ActiveCount(g3) > 0 THEN "advance" ELSE "nobody",
                winner |-> IF ActiveCount(g3) = 1
                           THEN g3.players[FirstActive(g3)].name ELSE None,
                steps |-> IF ActiveCount(g3) > 1 THEN advance_steps(g3) ELSE 0]

\* ---------------------------------------------------------- join and turn

start_game == initialize_game

\* Variant of join_game that puts the turn back on the first position.
join_game_resetting_index(g0, name) ==
    LET g1 == IF ~get_game(g0).is_active THEN initialize_game ELSE get_game(g0)
    IN IF find_player_by_name(g1, name) # 0
       THEN [game |-> g1, status |-> 400, note |-> "exists"]
       ELSE [game |-> [g1 EXCEPT
                         !.players = Append(@, Player(name)),
                         !.current_turn_order = Append(@, name),
                         !.current_turn_index = 0],
             status |-> 200, note |-> "joined"]

join_game(g0, name) ==
    LET g1 == IF ~get_game(g0).is_active THEN initialize_game ELSE get_game(g0)
    IN IF find_player_by_name(g1, name) # 0
       THEN [game |-> g1, status |-> 400, note |-> "exists"]
       ELSE [game |-> [g1 EXCEPT
                         !.players = Append(@, Player(name)),
                         !.current_turn_order = Append(@, name)],
             status |-> 200, note |-> "joined"]

is_your_turn(g0, name) ==
    LET g1 == get_game(g0) IN
    IF ~g1.is_active
    THEN [game |-> [g1 EXCEPT !.is_active = TRUE], status |-> 200,
          note |-> "game_activated"]
    ELSE LET i == find_player_by_name(g1, name) IN
         IF i = 0 THEN [game |-> g1, status |-> 404, note |-> "not_found"]
         ELSE IF ~g1.players[i].is_active
         THEN [game |-> [g1 EXCEPT !.players[i].is_active = TRUE], status |-> 200,
               note |-> "player_activated"]
         ELSE LET g2 == rebuild_if_stale(g1)
              IN [game |-> g2, status |-> 200,
                  note |-> IF CurrentName(g2) = name THEN "your_turn" ELSE "waiting"]

game_status(g0) == [get_game(g0) EXCEPT !.is_active = TRUE]

end_game(g0) ==
    LET g1 == get_game(g0) IN
    [g1 EXCEPT !.is_active = FALSE,
               !.pot = 0,
               !.players = [j \in 1..Len(g1.players) |->
                    [g1.players[j] EXCEPT !.current_bet = 0, !.is_all_in = FALSE,
                                          !.has_acted = FALSE]]]

\* ------------------------------------------------------ dealer delegation

\* How a call to the remote dealer can end: with a response (2xx, JSON), or
\* with a timeout, a refused connection, a status that is not 2xx, or a
\* body that is not JSON.
DealerOutcomes == {"ok", "timeout", "connection_error", "http_error", "bad_json"}

\* call_dealer_api: the dealer's response, or a dict with the key "error"
\* for every exception.
call_dealer_api(outcome) ==
    IF outcome = "ok"
    THEN [error |-> FALSE, body |-> "dealer_response"]
    ELSE [error |-> TRUE, body |-> "Failed to connect to dealer"]

\* Variant of place_bet_endpoint that acts locally whatever the dealer said.
place_bet_endpoint_both(g0, name, amount, outcome) ==
    LET d == call_dealer_api(outcome)
        r == place_bet(g0, name, amount)
    IN IF ~d.error
       THEN [game |-> r.game, status |-> 200, body |-> d.body, by |-> "dealer"]
       ELSE [game |-> r.game, status |-> r.status, body |-> r.note, by |-> "local"]

\* The place_bet endpoint: the dealer's response when there is one,
\* otherwise the local place_bet.
place_bet_endpoint(g0, name, amount, outcome) ==
    LET d == call_dealer_api(outcome)
        r == place_bet(g0, name, amount)
    IN IF ~d.error
       THEN [game |-> g0, status |-> 200, body |-> d.body, by |-> "dealer"]
       ELSE [game |-> r.game, status |-> r.status, body |-> r.note, by |-> "local"]

\* The fold endpoint, likewise.
fold_endpoint(g0, name, outcome) ==
    LET d == call_dealer_api(outcome)
        r == fold(g0, name)
    IN IF ~d.error
       THEN [game |-> g0, status |-> 200, body |-> d.body, by |-> "dealer"]
       ELSE [game |-> r.game, status |-> r.status, body |-> r.note, by |-> "local"]

\* The join_game, start_game and end_game endpoints make no call to the
\* dealer: whatever a call would yield, they act locally.
join_game_endpoint(g0, name, outcome) ==
    [game |-> join_game(g0, name).game, status |-> join_game(g0, name).status,
     body |-> join_game(g0, name).note, by |-> "local"]

start_game_endpoint(g0, outcome) ==
    [game |-> start_game, status |-> 200, body |-> "started", by |-> "local"]

end_game_endpoint(g0, outcome) ==
    [game |-> end_game(g0), status |-> 200, body |-> "ended", by |-> "local"]

\* ------------------------------------------------------------------ cards

\* A card is its rank and suit (its name is made from the two). A deck is
\* shuffled when it is built and cards are only ever popped from its front,
\* so a deck is the set of cards left in it and a pop takes any of them.
\* Hands and community cards are lists in the source; nothing reads a
\* position in them and no card enters one twice, so they are sets too.
\* hands[i] is the hand of players[i].
NoCards == [deck |-> {}, community_cards |-> {}, hands |-> <<>>]

CARD_VALUES ==
    ("2" :> 2) @@ ("3" :> 3) @@ ("4" :> 4) @@ ("5" :> 5) @@ ("6" :> 6) @@
    ("7" :> 7) @@ ("8" :> 8) @@ ("9" :> 9) @@ ("10" :> 10) @@ ("J" :> 11) @@
    ("Q" :> 12) @@ ("K" :> 13) @@ ("A" :> 14)

\* The suit as initialize_deck spells it: with a capital.
capitalize(suit) ==
    CASE suit = "hearts" -> "Hearts"
      [] suit = "diamonds" -> "Diamonds"
      [] suit = "clubs" -> "Clubs"
      [] suit = "spades" -> "Spades"
      [] OTHER -> suit

\* Variant of build_deck that walks the ranks with the index of the suit.
build_deck_same_rank(capital) ==
    [k \in 1..(Len(suits) * Len(ranks)) |->
        LET suit == suits[((k - 1) \div Len(ranks)) + 1]
        IN [rank |-> ranks[((k - 1) \div Len(ranks)) + 1],
            suit |-> IF capital THEN capitalize(suit) ELSE suit]]

\* The list the deck builders make before they shuffle it: for every suit,
\* in order, every rank, in order. capital: the suits are spelled as
\* initialize_deck spells them.
build_deck(capital) ==
    [k \in 1..(Len(suits) * Len(ranks)) |->
        LET suit == suits[((k - 1) \div Len(ranks)) + 1]
        IN [rank |-> ranks[((k - 1) % Len(ranks)) + 1],
            suit |-> IF capital THEN capitalize(suit) ELSE suit]]

\* random.shuffle: any order of the list.
Shuffles(deck) ==
    {[k \in 1..Len(deck) |-> deck[p[k]]] : p \in Permutations(1..Len(deck))}

\* The deck built by start_game, join_game and show_cards: suits in lower
\* case.
new_deck == {build_deck(FALSE)[k] : k \in 1..Len(build_deck(FALSE))}

\* The deck built by initialize_deck: suits capitalized.
initialize_deck == {build_deck(TRUE)[k] : k \in 1..Len(build_deck(TRUE))}

\* The card side of get_game: a new Game has an empty deck and no cards.
get_cards(g0, c0) == IF ~g0.is_active THEN NoCards ELSE c0

\* The card side of initialize_game.
initialize_cards == [NoCards EXCEPT !.deck = initialize_deck]

Min(a, b) == IF a <= b THEN a ELSE b

\* The ways of popping n cards from a deck: the cards popped and the deck
\* that is left.
Pop(deck, n) ==
    {[popped |-> h, deck |-> deck \ h] : h \in {x \in SUBSET deck : Cardinality(x) = n}}

\* join_game, card side: a game that was not active gets the deck of
\* initialize_game; a new player gets two cards when the deck, rebuilt if
\* it is empty, holds at least two, and none otherwise.
join_game_deal(g0, c0, name) ==
    LET fresh == ~get_game(g0).is_active
        g1 == IF fresh THEN initialize_game ELSE get_game(g0)
        c1 == IF fresh THEN initialize_cards ELSE get_cards(g0, c0)
        c2 == IF fresh /\ c1.deck = {} THEN [c1 EXCEPT !.deck = new_deck] ELSE c1
    IN IF find_player_by_name(g1, name) # 0 THEN {c2}
       ELSE LET c3 == IF c2.deck = {} THEN [c2 EXCEPT !.deck = new_deck] ELSE c2
            IN IF Cardinality(c3.deck) >= 2
               THEN {[c3 EXCEPT !.deck = d.deck, !.hands = Append(@, d.popped)] :
                        d \in Pop(c3.deck, 2)}
               ELSE {[c3 EXCEPT !.hands = Append(@, {})]}

\* show_cards when the dealer does not answer, chip side.
show_cards(g0, name) ==
    LET g1 == get_game(g0) IN
    IF find_player_by_name(g1, name) = 0
    THEN [game |-> g1, status |-> 404]
    ELSE [game |-> [g1 EXCEPT !.is_active = TRUE], status |-> 200]

\* show_cards, card side: a player without cards is dealt two, from a new
\* deck when the deck holds fewer than two.
show_cards_deal(g0, c0, name) ==
    LET g1 == get_game(g0)
        c1 == get_cards(g0, c0)
        i == find_player_by_name(g1, name)
    IN IF i = 0 THEN {c1}
       ELSE IF c1.hands[i] # {} THEN {c1}
       ELSE LET c2 == IF Cardinality(c1.deck) < 2
                      THEN [c1 EXCEPT !.deck = new_deck] ELSE c1
            IN {[c2 EXCEPT !.deck = d.deck, !.hands[i] = d.popped] :
                   d \in Pop(c2.deck, 2)}

\* community_cards when the dealer does not answer, chip side.
community_cards(g0) == get_game(g0)

\* Variant of community_cards_deal that deals on every call.
community_cards_deal_again(g0, c0) ==
    LET c1 == get_cards(g0, c0) IN
    IF c1.deck # {}
    THEN {[c1 EXCEPT !.deck = d.deck, !.community_cards = @ \cup d.popped] :
             d \in Pop(c1.deck, Min(5, Cardinality(c1.deck)))}
    ELSE {c1}

\* community_cards, card side: up to five cards are dealt once.
community_cards_deal(g0, c0) ==
    LET c1 == get_cards(g0, c0) IN
    IF c1.community_cards = {} /\ c1.deck # {}
    THEN {[c1 EXCEPT !.deck = d.deck, !.community_cards = d.popped] :
             d \in Pop(c1.deck, Min(5, Cardinality(c1.deck)))}
    ELSE {c1}

\* The two cards compare_cards gives a player when the deck cannot.
fallback_cards == {[rank |-> "A", suit |-> "hearts"], [rank |-> "K", suit |-> "hearts"]}

\* "Ensure all players have cards", from players[i] on.
RECURSIVE deal_missing(_, _, _)
deal_missing(g, c, i) ==
    IF i > Len(g.players) THEN {c}
    ELSE IF c.hands[i] # {} THEN deal_missing(g, c, i + 1)
    ELSE IF Cardinality(c.deck) >= 2
    THEN UNION {deal_missing(g, [c EXCEPT !.deck = d.deck, !.hands[i] = d.popped], i + 1) :
                   d \in Pop(c.deck, 2)}
    ELSE deal_missing(g, [c EXCEPT !.hands[i] = fallback_cards], i + 1)

\* Variant of compare_cards that hands the pot to the first active player.
compare_cards_paying(g0) ==
    LET g1 == get_game(g0) IN
    IF ~g1.is_active THEN [g1 EXCEPT !.is_active = TRUE]
    ELSE IF ActiveCount(g1) = 0 THEN g1
    ELSE [g1 EXCEPT !.players[FirstActive(g1)].balance = @ + g1.pot, !.pot = 0]

\* compare_cards, chip side: a game that is not active is activated.
compare_cards(g0) ==
    LET g1 == get_game(g0) IN
    IF ~g1.is_active THEN [g1 EXCEPT !.is_active = TRUE] ELSE g1

\* compare_cards, card side.
compare_cards_deal(g0, c0) ==
    LET g1 == get_game(g0)
        c1 == get_cards(g0, c0)
    IN IF ~g1.is_active THEN {c1} ELSE deal_missing(g1, c1, 1)

start_game_cards == [NoCards EXCEPT !.deck = new_deck]

\* end_game, card side: every player's cards are dropped.
end_game_cards(g0, c0) ==
    LET c1 == get_cards(g0, c0)
    IN [c1 EXCEPT !.hands = [j \in 1..Len(c1.hands) |-> {}]]

\* ------------------------------------------------------- determine_winner

\* CARD_VALUES.get(card.rank, 0)
card_value(card) ==
    IF card.rank \in DOMAIN CARD_VALUES THEN CARD_VALUES[card.rank] ELSE 0

MaxOf(S) == CHOOSE x \in S : \A y \in S : x >= y

\* Variant of highest_card that takes the lowest value of the hand.
lowest_card(hand) ==
    CHOOSE x \in {card_value(card) : card \in hand} :
        \A y \in {card_value(card) : card \in hand} : x <= y

\* max([CARD_VALUES.get(card.rank, 0) for card in player.cards])
highest_card(hand) == MaxOf({card_value(card) : card \in hand})

\* The names of the players at the positions in keep, in list order.
RECURSIVE NamesAt(_, _, _)
NamesAt(ps, keep, i) ==
    IF i > Len(ps) THEN <<>>
    ELSE (IF i \in keep THEN <<ps[i].name>> ELSE <<>>) \o NamesAt(ps, keep, i + 1)

NoWinner == [result |-> None, names |-> <<>>, hand_type |-> None, score |-> 0]

\* Variant of determine_winner that leaves the players who are all-in out.
determine_winner_skipping_all_in(g, c) ==
    LET active == {i \in 1..Len(g.players) :
                      g.players[i].is_active /\ ~g.players[i].is_all_in}
        scored == {i \in active : Cardinality(c.hands[i]) >= 2}
    IN IF active = {} THEN NoWinner
       ELSE IF Cardinality(active) = 1
       THEN [result |-> "winner", names |-> NamesAt(g.players, active, 1),
             hand_type |-> "default_win", score |-> 0]
       ELSE IF scored = {} THEN NoWinner
       ELSE LET max_score == MaxOf({highest_card(c.hands[i]) : i \in scored})
                winners == {i \in scored : highest_card(c.hands[i]) = max_score}
            IN [result |-> IF Cardinality(winners) = 1 THEN "winner" ELSE "split",
                names |-> NamesAt(g.players, winners, 1),
                hand_type |-> "high_card", score |-> max_score]

\* Variant of determine_winner without the case of a single active player.
determine_winner_comparing(g, c) ==
    LET active == {i \in 1..Len(g.players) : g.players[i].is_active}
        scored == {i \in active : Cardinality(c.hands[i]) >= 2}
    IN IF active = {} THEN NoWinner
       ELSE IF scored = {} THEN NoWinner
       ELSE LET max_score == MaxOf({highest_card(c.hands[i]) : i \in scored})
                winners == {i \in scored : highest_card(c.hands[i]) = max_score}
            IN [result |-> IF Cardinality(winners) = 1 THEN "winner" ELSE "split",
                names |-> NamesAt(g.players, winners, 1),
                hand_type |-> "high_card", score |-> max_score]

\* What determine_winner returns for the players of g holding the hands of
\* c: None, one winner, or the list of the winners of a split pot.
determine_winner(g, c) ==
    LET active == {i \in 1..Len(g.players) : g.players[i].is_active}
        scored == {i \in active : Cardinality(c.hands[i]) >= 2}
    IN IF active = {} THEN NoWinner
       ELSE IF Cardinality(active) = 1
       THEN [result |-> "winner", names |-> NamesAt(g.players, active, 1),
             hand_type |-> "default_win", score |-> 0]
       ELSE IF scored = {} THEN NoWinner
       ELSE LET max_score == MaxOf({highest_card(c.hands[i]) : i \in scored})
                winners == {i \in scored : highest_card(c.hands[i]) = max_score}
            IN [result |-> IF Cardinality(winners) = 1 THEN "winner" ELSE "split",
                names |-> NamesAt(g.players, winners, 1),
                hand_type |-> "high_card", score |-> max_score]

\* What compare_cards answers, for every way its deal can fall: the message
\* of the activation, a winner, a split pot, or the TypeError of subscripting
\* the None that determine_winner returned, which nothing catches.
compare_cards_answers(g0, c0) ==
    LET g1 == get_game(g0) IN
    IF ~g1.is_active THEN {"Game activated"}
    ELSE {LET winner_info == determine_winner(g1, c)
          IN IF winner_info.result = "split" THEN "Split pot"
             ELSE IF winner_info.result = None THEN "TypeError"
             ELSE "Winner determined" : c \in compare_cards_deal(g0, c0)}

\* ------------------------------------------------------------ bookkeeping

\* acct: the amounts accepted by place_bet (bets) and paid to a winner by
\* fold (paid) on the current Game object, the number of accepted bets, the
\* highest amount among them (high) and the chips the top-ups have added
\* (topups).
NoAcct == [bets |-> 0, paid |-> 0, nbets |-> 0, high |-> 0, topups |-> 0]

\* The chips a bet of amount adds to a balance it exceeds.
TopUpOf(balance, amount) ==
    IF amount > balance
    THEN (IF amount * 2 > 1000 THEN amount * 2 ELSE 1000) - balance
    ELSE 0

\* threads: the requests being handled at the same time, each by a thread of
\* the server's pool, and the Game objects they hold. No request is in
\* flight where the handlers are taken one at a time.
NoThreads == [heap |-> <<>>, global |-> 0, start |-> NewGame, t |-> <<>>]

BalanceOf(g, name) == g.players[find_player_by_name(g, name)].balance

\* A handler that finds the game inactive works on a new Game object.
AcctOf(g0) == IF ~g0.is_active THEN NoAcct ELSE acct

Init ==
    /\ game = NewGame
    /\ acct = NoAcct
    /\ cards = NoCards
    /\ threads = NoThreads

\* ---------------------------------------------------------------- actions

\* The remote dealer answered place_bet or fold: its response is returned
\* and nothing local runs.
DealerPlaceBet == UNCHANGED <<game, acct, cards, threads>>

DealerFold == UNCHANGED <<game, acct, cards, threads>>

PlaceBet(name, amount) ==
    LET r == place_bet(game, name, amount)
        a == AcctOf(game)
    IN /\ r.status = 200 => a.nbets < MaxBets
       /\ game' = r.game
       /\ acct' = IF r.status = 200
                  THEN [a EXCEPT !.bets = @ + amount, !.nbets = @ + 1,
                                 !.high = Max(@, amount),
                                 !.topups = @ + TopUpOf(BalanceOf(game, name), amount)]
                  ELSE a
       /\ UNCHANGED <<cards, threads>>

Fold(name) ==
    LET r == fold(game, name)
        a == AcctOf(game)
    IN /\ game' = r.game
       /\ acct' = IF r.note = "winner"
                  THEN [a EXCEPT !.paid = @ + BalanceOf(r.game, r.winner)
                                            - BalanceOf(r.mid, r.winner)]
                  ELSE a
       /\ UNCHANGED <<cards, threads>>

\* A new player joins in the order of Seats; any joined name may ask again.
JoinGame(name) ==
    LET r == join_game(game, name)
    IN /\ r.status = 200 => name = Seats[Len(r.game.players)]
       /\ game' = r.game
       /\ acct' = AcctOf(game)
       /\ UNCHANGED <<cards, threads>>

IsYourTurn(name) ==
    /\ game' = is_your_turn(game, name).game
    /\ acct' = AcctOf(game)
    /\ UNCHANGED <<cards, threads>>

StartGame ==
    /\ game' = start_game
    /\ acct' = NoAcct
    /\ UNCHANGED <<cards, threads>>

GameStatus ==
    /\ game' = game_status(game)
    /\ acct' = AcctOf(game)
    /\ UNCHANGED <<cards, threads>>

EndGame ==
    /\ game' = end_game(game)
    /\ acct' = AcctOf(game)
    /\ UNCHANGED <<cards, threads>>

CompareCards ==
    /\ game' = compare_cards(game)
    /\ acct' = AcctOf(game)
    /\ UNCHANGED <<cards, threads>>

Next ==
    \/ DealerPlaceBet
    \/ DealerFold
    \/ \E name \in Names, amount \in Amounts : PlaceBet(name, amount)
    \/ \E name \in Names : Fold(name)
    \/ \E name \in Names : JoinGame(name)
    \/ \E name \in Names : IsYourTurn(name)
    \/ StartGame
    \/ GameStatus
    \/ EndGame
    \/ CompareCards

Spec == Init /\ [][Next]_vars

\* ------------------------------------------- advance_turn on its own

\* Games advance_turn may be handed: the first n seats have joined, every
\* player is active or folded, all-in or not; the turn order is any
\* sequence of distinct joined names and the index lies inside it.
SeatNames(n) == {Seats[k] : k \in 1..n}

TurnOrders(n) ==
    {o \in UNION {[1..k -> SeatNames(n)] : k \in 0..n} :
        \A a, b \in DOMAIN o : a # b => o[a] # o[b]}

Tables(n) ==
    {[k \in 1..n |-> [Player(Seats[k]) EXCEPT !.is_active = act[k],
                                               !.is_all_in = allin[k]]] :
        act \in [1..n -> BOOLEAN], allin \in [1..n -> BOOLEAN]}

InitAdvance ==
    /\ acct = NoAcct
    /\ cards = NoCards
    /\ threads = NoThreads
    /\ \E n \in 1..Len(Seats) :
       \E ps \in Tables(n), o \in TurnOrders(n) :
       \E idx \in 0..Max(0, Len(o) - 1) :
          game = [initialize_game EXCEPT !.players = ps,
                                         !.current_turn_order = o,
                                         !.current_turn_index = idx]

AdvanceTurn ==
    /\ game' = advance_turn(game)
    /\ acct' = acct
    /\ UNCHANGED <<cards, threads>>

NextAdvance == AdvanceTurn

SpecAdvance == InitAdvance /\ [][NextAdvance]_vars

\* ------------------------------------------------------- the card side

\* Every handler that deals cards, and every handler that changes what the
\* dealing and the showdown read: the Game object, the player list and the
\* is_active flags. show_cards and community_cards are taken where the
\* dealer does not answer; where it does they change nothing local.
\* place_bet changes of all this only what is_your_turn changes as well (it
\* activates the game and the player); its chips are followed by Spec.

\* A new player joins in the order of CardSeats.
CardsJoinGame(name) ==
    LET r == join_game(game, name)
    IN /\ r.status = 200 => name = CardSeats[Len(r.game.players)]
       /\ game' = r.game
       /\ cards' \in join_game_deal(game, cards, name)
       /\ UNCHANGED threads
       /\ acct' = AcctOf(game)

CardsShowCards(name) ==
    /\ game' = show_cards(game, name).game
    /\ cards' \in show_cards_deal(game, cards, name)
    /\ UNCHANGED threads
    /\ acct' = AcctOf(game)

CardsCommunityCards ==
    /\ game' = community_cards(game)
    /\ cards' \in community_cards_deal(game, cards)
    /\ UNCHANGED threads
    /\ acct' = AcctOf(game)

CardsCompareCards ==
    /\ game' = compare_cards(game)
    /\ cards' \in compare_cards_deal(game, cards)
    /\ UNCHANGED threads
    /\ acct' = AcctOf(game)

CardsStartGame ==
    /\ game' = start_game
    /\ cards' = start_game_cards
    /\ UNCHANGED threads
    /\ acct' = NoAcct

CardsEndGame ==
    /\ game' = end_game(game)
    /\ cards' = end_game_cards(game, cards)
    /\ UNCHANGED threads
    /\ acct' = AcctOf(game)

CardsGameStatus ==
    /\ game' = game_status(game)
    /\ cards' = get_cards(game, cards)
    /\ UNCHANGED threads
    /\ acct' = AcctOf(game)

CardsFold(name) ==
    /\ game' = fold(game, name).game
    /\ cards' = get_cards(game, cards)
    /\ UNCHANGED threads
    /\ acct' = AcctOf(game)

CardsIsYourTurn(name) ==
    /\ game' = is_your_turn(game, name).game
    /\ cards' = get_cards(game, cards)
    /\ UNCHANGED threads
    /\ acct' = AcctOf(game)

NextCards ==
    \/ \E name \in CardNames : CardsJoinGame(name)
    \/ \E name \in CardNames : CardsShowCards(name)
    \/ CardsCommunityCards
    \/ CardsCompareCards
    \/ CardsStartGame
    \/ CardsEndGame
    \/ CardsGameStatus
    \/ \E name \in CardNames : CardsFold(name)
    \/ \E name \in CardNames : CardsIsYourTurn(name)

SpecCards == Init /\ [][NextCards]_vars

\* ----------------------------------------------------- a deck on its own

\* A deck that has just been built and shuffled, as a list, and the cards
\* popped from its front so far.
InitDeck ==
    /\ game = NewGame
    /\ acct = NoAcct
    /\ \E capital \in BOOLEAN : \E d \in Shuffles(build_deck(capital)) :
          cards = [deck |-> d, drawn |-> <<>>, capital |-> capital]
    /\ threads = NoThreads

\* deck.pop(0)
Draw ==
    /\ cards.deck # <<>>
    /\ cards' = [cards EXCEPT !.deck = Tail(@), !.drawn = Append(@, Head(cards.deck))]
    /\ UNCHANGED <<game, acct, threads>>

NextDeck == Draw

SpecDeck == InitDeck /\ [][NextDeck]_vars

\* ------------------------------------------- specification of the showdown

\* determine_winner and the payout of fold over the tables they can be
\* given: three players, every combination of is_active and is_all_in, and
\* every deal of at most two cards of the deck to each of them, the cards
\* not dealt staying in the deck.
Deals ==
    {own \in [new_deck -> 0..Len(CardSeats)] :
        \A i \in 1..Len(CardSeats) :
            Cardinality({card \in new_deck : own[card] = i}) <= 2}

ShowdownTables ==
    {[k \in 1..Len(CardSeats) |->
          [Player(CardSeats[k]) EXCEPT !.is_active = act[k],
                                       !.is_all_in = allin[k]]] :
        act \in [1..Len(CardSeats) -> BOOLEAN],
        allin \in [1..Len(CardSeats) -> BOOLEAN]}

InitShowdown ==
    /\ acct = NoAcct
    /\ threads = NoThreads
    /\ \E ps \in ShowdownTables :
          game = [initialize_game EXCEPT !.players = ps,
                                         !.current_turn_order = SelectActive(ps)]
    /\ \E own \in Deals :
          cards = [deck |-> {card \in new_deck : own[card] = 0},
                   community_cards |-> {},
                   hands |-> [i \in 1..Len(CardSeats) |->
                                 {card \in new_deck : own[card] = i}]]

NextShowdown ==
    \/ CardsCompareCards
    \/ \E name \in CardNames : CardsFold(name)

SpecShowdown == InitShowdown /\ [][NextShowdown]_vars

\* ------------------------------------- specification of concurrent requests

\* The handlers are plain functions, which the server runs in the threads of
\* a pool, and nothing in them takes a lock: two requests are handled by two
\* threads whose statements interleave. The dealer is out of reach, so that
\* place_bet and fold take their local path.
\*
\* threads.heap holds the Game objects made so far, threads.global is the
\* position of the one _game refers to, and game is that object. Of a thread,
\* ref is the object its local variable game refers to, pobj and ppos the
\* object and the position in its player list of the player it has found,
\* current_bet and pot what it has read of the table.
RaceThreads == {1, 2}

\* The states the two requests arrive in: no game, one player seated, two
\* players seated, and two players seated with a bet in the pot.
RaceStarts ==
    {NewGame,
     join_game(NewGame, Seats[1]).game,
     join_game(join_game(NewGame, Seats[1]).game, Seats[2]).game,
     place_bet(join_game(join_game(NewGame, Seats[1]).game, Seats[2]).game,
               Seats[1], 300).game}

Bets == {[op |-> "place_bet", name |-> name, amount |-> amount] :
            name \in Names, amount \in Amounts}

Folds == {[op |-> "fold", name |-> name, amount |-> 0] : name \in Names}

Joins == {[op |-> "join_game", name |-> name, amount |-> 0] : name \in Names}

\* Two bets, a bet and a fold, or two joins.
RacePairs ==
    {<<a, b>> : a \in Bets, b \in Bets} \cup
    {<<a, b>> : a \in Bets, b \in Folds} \cup
    {<<a, b>> : a \in Joins, b \in Joins}

NewThread(request) ==
    [req |-> request, pc |-> "start", ref |-> 0, pobj |-> 0, ppos |-> 0,
     current_bet |-> 0, pot |-> 0, status |-> 0]

InitRace ==
    /\ acct = NoAcct
    /\ cards = NoCards
    /\ \E g \in RaceStarts, pair \in RacePairs :
          /\ game = g
          /\ threads = [heap |-> <<g>>, global |-> 1, start |-> g,
                        t |-> <<NewThread(pair[1]), NewThread(pair[2])>>]

\* get_game on the objects: an inactive _game is replaced by a new Game.
get_game_object(th) ==
    IF ~th.heap[th.global].is_active
    THEN [th EXCEPT !.heap = Append(@, NewGame), !.global = Len(th.heap) + 1]
    ELSE th

\* initialize_game on the objects: _game is replaced by a new active Game.
initialize_game_object(th) ==
    [th EXCEPT !.heap = Append(@, initialize_game), !.global = Len(th.heap) + 1]

\* A step leaves the objects as th has them; game is the one _game names.
RaceUpdate(th) ==
    /\ threads' = th
    /\ game' = th.heap[th.global]
    /\ UNCHANGED <<acct, cards>>

\* join_game: game = get_game()
RaceJoinGet(t) ==
    /\ threads.t[t].req.op = "join_game" /\ threads.t[t].pc = "start"
    /\ LET th == get_game_object(threads)
       IN RaceUpdate([th EXCEPT !.t[t].ref = th.global,
                                !.t[t].pc = IF th.heap[th.global].is_active
                                            THEN "find" ELSE "initialize"])

\* join_game: initialize_game(0)
RaceJoinInitialize(t) ==
    /\ threads.t[t].pc = "initialize"
    /\ RaceUpdate([initialize_game_object(threads) EXCEPT !.t[t].pc = "fetch"])

\* join_game: game = get_game(), after initialize_game
RaceJoinFetch(t) ==
    /\ threads.t[t].pc = "fetch"
    /\ LET th == get_game_object(threads)
       IN RaceUpdate([th EXCEPT !.t[t].ref = th.global, !.t[t].pc = "find"])

\* join_game: existing_player = find_player_by_name(request.name), which
\* looks in the players of get_game().
RaceJoinFind(t) ==
    /\ threads.t[t].req.op = "join_game" /\ threads.t[t].pc = "find"
    /\ LET th == get_game_object(threads)
       IN IF find_player_by_name(th.heap[th.global], threads.t[t].req.name) # 0
          THEN RaceUpdate([th EXCEPT !.t[t].pc = "done", !.t[t].status = 400])
          ELSE RaceUpdate([th EXCEPT !.t[t].pc = "append"])

\* join_game: the new player is appended to the players and to the turn
\* order of the thread's game.
RaceJoinAppend(t) ==
    /\ threads.t[t].pc = "append"
    /\ RaceUpdate([threads EXCEPT
          !.heap[threads.t[t].ref].players = Append(@, Player(threads.t[t].req.name)),
          !.heap[threads.t[t].ref].current_turn_order = Append(@, threads.t[t].req.name),
          !.t[t].pc = "done", !.t[t].status = 200])

\* place_bet and fold: game = get_game(), and the game is activated.
RaceGet(t) ==
    /\ threads.t[t].req.op \in {"place_bet", "fold"} /\ threads.t[t].pc = "start"
    /\ LET th == get_game_object(threads)
       IN RaceUpdate([th EXCEPT !.heap[th.global].is_active = TRUE,
                                !.t[t].ref = th.global, !.t[t].pc = "find"])

\* place_bet and fold: player = find_player_by_name(request.name)
RaceFind(t) ==
    /\ threads.t[t].req.op \in {"place_bet", "fold"} /\ threads.t[t].pc = "find"
    /\ LET th == get_game_object(threads)
           i == find_player_by_name(th.heap[th.global], threads.t[t].req.name)
       IN IF i = 0
          THEN RaceUpdate([th EXCEPT !.t[t].pc = "done", !.t[t].status = 404])
          ELSE RaceUpdate([th EXCEPT !.t[t].pobj = th.global, !.t[t].ppos = i,
                                     !.t[t].pc = "prepare"])

\* place_bet: the player is activated, an empty turn order is rebuilt, the
\* table's current_bet is read and the amount is checked.
RaceBetPrepare(t) ==
    /\ threads.t[t].req.op = "place_bet" /\ threads.t[t].pc = "prepare"
    /\ LET me == threads.t[t]
           h1 == [threads.heap EXCEPT ![me.pobj].players[me.ppos].is_active = TRUE]
           h2 == [h1 EXCEPT ![me.ref] = rebuild_if_stale(h1[me.ref])]
       IN RaceUpdate([threads EXCEPT
             !.heap = h2,
             !.t[t].current_bet = h2[me.ref].current_bet,
             !.t[t].pc = IF me.req.amount <= 0 THEN "done" ELSE "balance",
             !.t[t].status = IF me.req.amount <= 0 THEN 400 ELSE 0])

\* place_bet: the top-up, player.balance -= amount, player.current_bet = amount
RaceBetBalance(t) ==
    /\ threads.t[t].pc = "balance"
    /\ LET me == threads.t[t]
       IN RaceUpdate([threads EXCEPT
             !.heap[me.pobj].players[me.ppos].balance =
                 top_up(@, me.req.amount) - me.req.amount,
             !.heap[me.pobj].players[me.ppos].current_bet = me.req.amount,
             !.t[t].pc = "read_pot"])

\* place_bet: game.pot += amount, the read
RaceBetReadPot(t) ==
    /\ threads.t[t].pc = "read_pot"
    /\ RaceUpdate([threads EXCEPT
          !.t[t].pot = threads.heap[threads.t[t].ref].pot,
          !.t[t].pc = "write_pot"])

\* place_bet: game.pot += amount, the write
RaceBetWritePot(t) ==
    /\ threads.t[t].pc = "write_pot"
    /\ RaceUpdate([threads EXCEPT
          !.heap[threads.t[t].ref].pot = threads.t[t].pot + threads.t[t].req.amount,
          !.t[t].pc = "raise"])

\* place_bet: the table's bet is raised, the player is marked and the turn
\* advances.
RaceBetFinish(t) ==
    /\ threads.t[t].pc = "raise"
    /\ LET me == threads.t[t]
           h1 == [threads.heap EXCEPT ![me.ref] =
                     raise_bet(@, find_player_by_name(@, me.req.name),
                               me.req.amount, me.current_bet)]
           h2 == [h1 EXCEPT ![me.pobj].players[me.ppos].has_acted = TRUE]
           h3 == [h2 EXCEPT ![me.ref] = advance_turn(@)]
       IN RaceUpdate([threads EXCEPT !.heap = h3, !.t[t].pc = "done",
                                     !.t[t].status = 200])

\* fold: the player is marked as having acted and is set inactive.
RaceFoldMark(t) ==
    /\ threads.t[t].req.op = "fold" /\ threads.t[t].pc = "prepare"
    /\ LET me == threads.t[t]
       IN RaceUpdate([threads EXCEPT
             !.heap[me.pobj].players[me.ppos].has_acted = TRUE,
             !.heap[me.pobj].players[me.ppos].is_active = FALSE,
             !.t[t].pc = "remove"])

\* fold: "Initialize or update turn order"
RaceFoldRemove(t) ==
    /\ threads.t[t].pc = "remove"
    /\ LET me == threads.t[t]
       IN RaceUpdate([threads EXCEPT
             !.heap[me.ref] = fold_remove(@, me.req.name),
             !.t[t].pc = "finish"])

\* fold: the payout to a single survivor, or the advance of the turn.
RaceFoldFinish(t) ==
    /\ threads.t[t].pc = "finish"
    /\ LET me == threads.t[t]
       IN RaceUpdate([threads EXCEPT
             !.heap[me.ref] = fold_finish(@),
             !.t[t].pc = "done", !.t[t].status = 200])

RaceStep(t) ==
    \/ RaceJoinGet(t)
    \/ RaceJoinInitialize(t)
    \/ RaceJoinFetch(t)
    \/ RaceJoinFind(t)
    \/ RaceJoinAppend(t)
    \/ RaceGet(t)
    \/ RaceFind(t)
    \/ RaceBetPrepare(t)
    \/ RaceBetBalance(t)
    \/ RaceBetReadPot(t)
    \/ RaceBetWritePot(t)
    \/ RaceBetFinish(t)
    \/ RaceFoldMark(t)
    \/ RaceFoldRemove(t)
    \/ RaceFoldFinish(t)

NextRace == \E t \in RaceThreads : RaceStep(t)

SpecRace == InitRace /\ [][NextRace]_vars

\* ----------------------------------------------------------------- claims

\* The handlers are applied to every reachable game and every request; a
\* property of a handler relates the game it is handed to the game it leaves.

PlayerOf(g, name) == g.players[find_player_by_name(g, name)]

\* C1: every accepted place_bet(p, a) leaves p's balance at the balance
\* before (replaced by max(1000, 2a) when a exceeded it) minus a, the pot
\* larger by a, and p's current_bet equal to a; two accepted bets a1, a2 in
\* a row by p leave current_bet = a2 and the pot larger by a1 + a2.
C1_BetApplied ==
    \A name \in Names, a1 \in Amounts :
        LET r1 == place_bet(game, name, a1)
        IN r1.status = 200 =>
             /\ a1 > 0
             /\ find_player_by_name(game, name) # 0
             /\ LET before == PlayerOf(game, name).balance
                    funds == IF a1 > before
                             THEN (IF 2 * a1 > 1000 THEN 2 * a1 ELSE 1000)
                             ELSE before
                IN PlayerOf(r1.game, name).balance = funds - a1
             /\ r1.game.pot = game.pot + a1
             /\ PlayerOf(r1.game, name).current_bet = a1
             /\ \A a2 \in Amounts :
                   LET r2 == place_bet(r1.game, name, a2)
                   IN r2.status = 200 =>
                        /\ PlayerOf(r2.game, name).current_bet = a2
                        /\ r2.game.pot = game.pot + a1 + a2

\* Two bets were accepted, 300 and then 1000, both from the same player:
\* the balance 700 was topped up to 2000, current_bet is 1000, the pot 1300.
C1_Witness ==
    /\ game.is_active
    /\ acct.nbets = 2
    /\ game.pot = 1300
    /\ \E i \in 1..Len(game.players) :
          /\ game.players[i].current_bet = 1000
          /\ game.players[i].balance = 1000
          /\ \A j \in 1..Len(game.players) :
                j # i => game.players[j].current_bet = 0

\* C2: an accepted place_bet(p, a) with a above the table's current_bet
\* leaves the table's current_bet at a, has_acted false for every other
\* player that is active and not all-in, and has_acted true for p.
C2_RaiseResets ==
    \A name \in Names, amount \in Amounts :
        LET r == place_bet(game, name, amount)
        IN (r.status = 200 /\ amount > game.current_bet) =>
             /\ r.game.current_bet = amount
             /\ PlayerOf(r.game, name).has_acted
             /\ \A j \in 1..Len(r.game.players) :
                   (/\ r.game.players[j].name # name
                    /\ r.game.players[j].is_active
                    /\ ~r.game.players[j].is_all_in) => ~r.game.players[j].has_acted

\* A bet of 300 was raised to 1000 by another player: the first bettor is
\* still active and no longer counts as having acted.
C2_Witness ==
    /\ game.is_active
    /\ game.current_bet = 1000
    /\ \E i, j \in 1..Len(game.players) :
          /\ i # j
          /\ game.players[i].current_bet = 1000
          /\ game.players[i].has_acted
          /\ game.players[j].current_bet = 300
          /\ game.players[j].is_active
          /\ ~game.players[j].has_acted

\* The pot is left alone by a request that is neither an accepted bet nor a
\* fold that pays a single survivor (end_game included or not).
PotKept(withEnd) ==
    game.is_active =>
        /\ \A name \in Names :
              /\ join_game(game, name).game.pot = game.pot
              /\ is_your_turn(game, name).game.pot = game.pot
              /\ fold(game, name).note # "winner" =>
                     fold(game, name).game.pot = game.pot
              /\ \A amount \in Amounts :
                     place_bet(game, name, amount).status # 200 =>
                         place_bet(game, name, amount).game.pot = game.pot
        /\ game_status(game).pot = game.pot
        /\ withEnd => end_game(game).pot = game.pot

\* C3 as stated: in every reachable state the pot equals the amounts
\* accepted by place_bet minus the pots paid out by fold on this Game
\* object, and no other operation changes the pot of the same Game object.
C3_Original ==
    /\ game.pot = acct.bets - acct.paid
    /\ PotKept(TRUE)

\* C3: while the game is active the pot equals the amounts accepted by
\* place_bet minus the pots paid out by fold on this Game object; apart from
\* those two only end_game changes the pot of the same Game object: it sets
\* it to 0 as it deactivates the game.
C3_PotAccount ==
    /\ game.is_active => game.pot = acct.bets - acct.paid
    /\ PotKept(FALSE)
    /\ end_game(game).pot = 0
    /\ ~end_game(game).is_active

\* Bets were accepted, a fold has paid a pot out, and a new bet is in the pot.
C3_Witness ==
    /\ game.is_active
    /\ acct.paid > 0
    /\ game.pot > 0
    /\ acct.bets > game.pot

\* C4: a fold that leaves exactly one active player adds the whole pot, as
\* it was before the fold, to that player's balance, leaves the pot at 0 and
\* does not advance: turn order and index are as the removal left them.
C4_SurvivorPaid ==
    \A name \in Names :
        LET r == fold(game, name)
        IN (r.status = 200 /\ ActiveCount(r.game) = 1) =>
             LET w == FirstActive(r.game)
             IN /\ r.game.players[w].name # name
                /\ r.game.players[w].balance = game.players[w].balance + game.pot
                /\ r.game.pot = 0
                /\ \A j \in 1..Len(game.players) :
                      j # w => r.game.players[j].balance = game.players[j].balance
                /\ r.game.current_turn_order = r.mid.current_turn_order
                /\ r.game.current_turn_index = r.mid.current_turn_index
                /\ r.game.current_turn_index \in
                      {game.current_turn_index, 0} \cup
                      (IF r.game.current_turn_order # <<>>
                       THEN {game.current_turn_index % Len(r.game.current_turn_order)}
                       ELSE {})

\* A fold has paid a pot of 1300 to the single survivor, whose own bet of
\* 1000 (from a balance of 1000) was part of it.
C4_Witness ==
    /\ game.is_active
    /\ acct.paid = 1300
    /\ game.pot = 0
    /\ ActiveCount(game) = 1
    /\ game.players[FirstActive(game)].balance = 1300

\* C5: after a fold that leaves exactly one active player the game is no
\* longer active.
C5_FoldEndsGame ==
    \A name \in Names :
        LET r == fold(game, name)
        IN (r.status = 200 /\ ActiveCount(r.game) = 1) => ~r.game.is_active

\* C6: whenever the turn order is non-empty the turn index lies inside it.
C6_IndexInRange ==
    game.current_turn_order # <<>> =>
        /\ 0 <= game.current_turn_index
        /\ game.current_turn_index < Len(game.current_turn_order)

\* Three players joined, one has folded, and the index is at the last
\* position of the shortened order.
C6_Witness ==
    /\ Len(game.players) = 3
    /\ Len(game.current_turn_order) = 2
    /\ game.current_turn_index = 1
    /\ ActiveCount(game) = 2

\* The name at the turn index of g is an active player other than name.
TurnOnActiveOther(g, name) ==
    /\ g.current_turn_order # <<>>
    /\ g.current_turn_index \in 0..(Len(g.current_turn_order) - 1)
    /\ CurrentName(g) # name
    /\ find_player_by_name(g, CurrentName(g)) # 0
    /\ PlayerOf(g, CurrentName(g)).is_active

\* C7: after a fold that leaves at least two active players the name at the
\* turn index is an active player and not the folder: where the removal
\* left a name at the index, after the advance of the fold, and after the
\* advance that follows.
C7_TurnOnActive ==
    \A name \in Names :
        LET r == fold(game, name)
        IN (r.status = 200 /\ ActiveCount(r.game) >= 2) =>
             /\ r.mid.current_turn_order # <<>> => TurnOnActiveOther(r.mid, name)
             /\ TurnOnActiveOther(r.game, name)
             /\ TurnOnActiveOther(advance_turn(r.game), name)

\* Three active players with the turn on Bob: Bob's fold removes him, the
\* index then names Carol, and the advance of the fold moves it on to Alice.
C7_Witness ==
    /\ ActiveCount(game) = 3
    /\ game.current_turn_order = <<"Alice", "Bob", "Carol">>
    /\ game.current_turn_index = 1
    /\ LET r == fold(game, "Bob")
       IN /\ r.status = 200
          /\ ActiveCount(r.game) = 2
          /\ CurrentName(r.mid) = "Carol"
          /\ CurrentName(r.game) = "Alice"

\* name is a player of g that is active and not all-in.
CanAct(g, name) ==
    \E i \in 1..Len(g.players) :
        g.players[i].name = name /\ g.players[i].is_active /\ ~g.players[i].is_all_in

\* Offsets d (1 .. n-1) from the turn index of g at which the turn order
\* names a player that can act.
ActingOffsets(g) ==
    LET n == Len(g.current_turn_order) IN
    {d \in 1..(n - 1) :
        CanAct(g, g.current_turn_order[((g.current_turn_index + d) % n) + 1])}

Least(S) == CHOOSE d \in S : \A e \in S : d <= e

\* C8: advance_turn on a non-empty turn order moves the index to the first
\* position, in cyclic order strictly after the starting index, whose
\* player is active and not all-in, and leaves the index at the starting
\* index when there is none before the scan is back at the start.
C8_NextEligible ==
    game.current_turn_order # <<>> =>
        LET n == Len(game.current_turn_order)
            g2 == advance_turn(game)
        IN /\ g2.current_turn_order = game.current_turn_order
           /\ g2.players = game.players
           /\ g2.current_turn_index =
                 IF ActingOffsets(game) = {} THEN game.current_turn_index
                 ELSE (game.current_turn_index + Least(ActingOffsets(game))) % n

\* The turn is on the first of three names, the second is all-in or folded
\* and the third is eligible: the advance has to skip one name.
C8_Witness ==
    /\ Len(game.current_turn_order) = 3
    /\ game.current_turn_index = 0
    /\ ~CanAct(game, game.current_turn_order[2])
    /\ CanAct(game, game.current_turn_order[3])
    /\ advance_turn(game).current_turn_index = 2

\* C9: advance_turn takes at most len(current_turn_order) index steps, and
\* when every player in the turn order is all-in or inactive it leaves the
\* index where it was.
C9_BoundedAdvance ==
    /\ advance_steps(game) <= Len(game.current_turn_order)
    /\ (/\ game.current_turn_order # <<>>
        /\ \A k \in 1..Len(game.current_turn_order) :
              ~CanAct(game, game.current_turn_order[k]))
       => advance_turn(game).current_turn_index = game.current_turn_index

\* Two names in the turn order, both all-in and active, while the third
\* player, outside the order, is eligible: the scan runs the whole cycle.
C9_Witness ==
    /\ Len(game.current_turn_order) = 2
    /\ Len(game.players) = 3
    /\ \A k \in 1..2 :
          /\ PlayerOf(game, game.current_turn_order[k]).is_all_in
          /\ PlayerOf(game, game.current_turn_order[k]).is_active
    /\ AnyEligible(game)
    /\ advance_steps(game) = 2

\* C10: a player whose balance reaches 0 by an accepted place_bet is all-in
\* afterwards.
C10_AllInAtZero ==
    \A name \in Names, amount \in Amounts :
        LET r == place_bet(game, name, amount)
        IN (r.status = 200 /\ PlayerOf(r.game, name).balance = 0) =>
             PlayerOf(r.game, name).is_all_in

\* C11: a player that has folded stays inactive under every later
\* place_bet, fold or is_your_turn, whoever sends it and whatever it answers,
\* as long as the same game exists.
C11_FoldedStaysOut ==
    game.is_active =>
        \A p \in Names :
            (\E i \in 1..Len(game.players) :
                 game.players[i].name = p /\ ~game.players[i].is_active) =>
                \A q \in Names :
                    /\ ~PlayerOf(is_your_turn(game, q).game, p).is_active
                    /\ ~PlayerOf(fold(game, q).game, p).is_active
                    /\ \A amount \in Amounts :
                          ~PlayerOf(place_bet(game, q, amount).game, p).is_active

\* C12: place_bet accepts every positive amount from a known player; when
\* the amount exceeds the balance the balance becomes max(1000, 2 * amount)
\* before the amount is taken; no balance is ever negative.
C12_TopUp ==
    /\ \A i \in 1..Len(game.players) : game.players[i].balance >= 0
    /\ game.is_active =>
          \A i \in 1..Len(game.players), amount \in Amounts :
              LET r == place_bet(game, game.players[i].name, amount)
                  before == game.players[i].balance
              IN amount > 0 =>
                   /\ r.status = 200
                   /\ amount > before =>
                         r.game.players[i].balance =
                            (IF 2 * amount > 1000 THEN 2 * amount ELSE 1000) - amount
                   /\ r.game.players[i].balance >= 0

\* Two bets were accepted from one player, 1000 and then 300: the second
\* found the balance at 0, which became 1000 before 300 was taken.
C12_Witness ==
    /\ game.is_active
    /\ acct.nbets = 2
    /\ game.pot = 1300
    /\ \E i \in 1..Len(game.players) :
          /\ game.players[i].current_bet = 300
          /\ game.players[i].balance = 700
          /\ \A j \in 1..Len(game.players) :
                j # i => game.players[j].balance = JoinBalance

\* C13: a place_bet rejected for its amount leaves the game as it was.
C13_RejectedBetNoChange ==
    \A name \in Names, amount \in Amounts :
        LET r == place_bet(game, name, amount)
        IN (game.is_active /\ r.status = 400) => r.game = game

\* No player of g is called name.
Unknown(g, name) == \A j \in 1..Len(g.players) : g.players[j].name # name

\* g and h agree on players, pot, table bet, turn order and turn index.
SameTable(g, h) ==
    /\ g.players = h.players
    /\ g.pot = h.pot
    /\ g.current_bet = h.current_bet
    /\ g.current_turn_order = h.current_turn_order
    /\ g.current_turn_index = h.current_turn_index

\* C14: place_bet and fold for a name that is not in the player list answer
\* 404 and leave players, pot, table bet, turn order and turn index of the
\* game they work on (the current one, or the new one that takes the place
\* of an ended one) as they found them.
C14_UnknownPlayer ==
    LET seen == IF game.is_active THEN game ELSE NewGame
    IN \A name \in Names :
          Unknown(seen, name) =>
             /\ fold(game, name).status = 404
             /\ SameTable(fold(game, name).game, seen)
             /\ \A amount \in Amounts :
                   /\ place_bet(game, name, amount).status = 404
                   /\ SameTable(place_bet(game, name, amount).game, seen)

\* Two players are in a game with chips in the pot and the turn on the
\* second; the third name has not joined and its requests are turned away.
C14_Witness ==
    /\ game.is_active
    /\ Len(game.players) = 2
    /\ game.pot > 0
    /\ game.current_turn_index = 1
    /\ \E name \in Names :
          /\ Unknown(game, name)
          /\ place_bet(game, name, 300).status = 404
          /\ fold(game, name).status = 404

\* C18: a successful join on an active game appends the new player to the
\* player list and the name to the turn order, with balance 1000, active,
\* not all-in, not having acted and current_bet 0, and leaves pot, table
\* bet, turn index and every other player as they were.
C18_JoinAppends ==
    game.is_active =>
        \A name \in Names :
            LET r == join_game(game, name)
                n == Len(game.players)
            IN r.status = 200 =>
                 /\ Len(r.game.players) = n + 1
                 /\ SubSeq(r.game.players, 1, n) = game.players
                 /\ r.game.players[n + 1] =
                       [name |-> name, balance |-> 1000, current_bet |-> 0,
                        is_active |-> TRUE, is_all_in |-> FALSE, has_acted |-> FALSE]
                 /\ r.game.current_turn_order = Append(game.current_turn_order, name)
                 /\ r.game.pot = game.pot
                 /\ r.game.current_bet = game.current_bet
                 /\ r.game.current_turn_index = game.current_turn_index
                 /\ r.game.is_active

\* Two players have bet, the turn has moved on, and the third player has
\* joined since: it is last in the player list and in the turn order.
C18_Witness ==
    /\ game.is_active
    /\ Len(game.players) = 3
    /\ acct.nbets = 2
    /\ game.pot = 1300
    /\ game.current_turn_index = 1
    /\ Len(game.current_turn_order) = 3
    /\ game.current_turn_order[3] = game.players[3].name
    /\ game.players[3] = Player(game.players[3].name)

\* C15: a join with a name that a player of the active game has, letter
\* for letter, answers 400 and leaves player list, deck, turn order and
\* turn index as they were; a name that differs from every player's name,
\* be it in the case of a letter only, is accepted.
C15_DuplicateJoin ==
    game.is_active =>
        \A name \in CardNames :
            LET r == join_game(game, name)
            IN /\ (\E j \in 1..Len(game.players) : game.players[j].name = name) =>
                     /\ r.status = 400
                     /\ r.game.players = game.players
                     /\ r.game.current_turn_order = game.current_turn_order
                     /\ r.game.current_turn_index = game.current_turn_index
                     /\ \A c \in join_game_deal(game, cards, name) :
                           c.deck = cards.deck /\ c.hands = cards.hands
               /\ Unknown(game, name) =>
                     /\ r.status = 200
                     /\ r.game.players[Len(r.game.players)].name = name

\* "Alice" and "alice" have both joined and hold four of the six cards:
\* another join of either is turned away.
C15_Witness ==
    /\ game.is_active
    /\ Len(game.players) = 2
    /\ game.players[1].name = "Alice"
    /\ game.players[2].name = "alice"
    /\ Cardinality(cards.deck) = 2
    /\ join_game(game, "alice").status = 400
    /\ join_game(game, "Alice").status = 400

\* C16: every successful join leaves the new player holding exactly two
\* cards, whatever the deck held when the join came.
C16_JoinDealsTwo ==
    \A name \in CardNames :
        join_game(game, name).status = 200 =>
            \A c \in join_game_deal(game, cards, name) :
                /\ Len(c.hands) = Len(join_game(game, name).game.players)
                /\ Cardinality(c.hands[Len(c.hands)]) = 2

\* C17: no card is held twice: the hands, the community cards and the deck
\* are pairwise disjoint.
C17_NoDuplicates ==
    /\ \A i, j \in 1..Len(cards.hands) :
          i # j => cards.hands[i] \cap cards.hands[j] = {}
    /\ \A i \in 1..Len(cards.hands) :
          /\ cards.hands[i] \cap cards.community_cards = {}
          /\ cards.hands[i] \cap cards.deck = {}
    /\ cards.community_cards \cap cards.deck = {}

\* The value of a rank by its place in the order 2 < 3 < ... < K < A.
RankOrder == <<"2", "3", "4", "5", "6", "7", "8", "9", "10", "J", "Q", "K", "A">>

RankValues ==
    [rank \in {RankOrder[k] : k \in 1..Len(RankOrder)} |->
        1 + CHOOSE k \in 1..Len(RankOrder) : RankOrder[k] = rank]

RankValue(rank) == RankValues[rank]

\* The highest card value of a hand is v.
HighIs(hand, v) ==
    /\ \E card \in hand : RankValue(card.rank) = v
    /\ \A card \in hand : RankValue(card.rank) <= v

\* The active players of the game that hold at least two cards.
Contenders ==
    {i \in 1..Len(game.players) :
        game.players[i].is_active /\ Cardinality(cards.hands[i]) >= 2}

\* The contenders no other contender beats: for every card a contender
\* holds they hold one that is worth as much or more.
Best ==
    {i \in Contenders :
        \A j \in Contenders : \A theirs \in cards.hands[j] :
            \E own \in cards.hands[i] : RankValue(own.rank) >= RankValue(theirs.rank)}

\* C19: with two or more active players determine_winner returns exactly
\* the active players with at least two cards whose highest card value
\* (2..14, Ace = 14) is the greatest among them: one winner when there is
\* one, all of them as a split pot when there are several.
C19_HighCardWins ==
    ActiveCount(game) >= 2 =>
        LET w == determine_winner(game, cards)
        IN /\ {w.names[k] : k \in 1..Len(w.names)} = {game.players[i].name : i \in Best}
           /\ Len(w.names) = Cardinality(Best)
           /\ Cardinality(Best) = 1 => w.result = "winner"
           /\ Cardinality(Best) > 1 => w.result = "split"
           /\ Best # {} =>
                 /\ w.hand_type = "high_card"
                 /\ w.score \in 2..14
                 /\ \A i \in Best : HighIs(cards.hands[i], w.score)

\* Three active players: two hold an Ace with a 2, the third holds both
\* Kings. The two Ace holders split the pot.
C19_Witness ==
    /\ ActiveCount(game) = 3
    /\ \E i, j, k \in 1..3 :
          /\ i # j
          /\ cards.hands[k] = {[rank |-> "K", suit |-> "hearts"],
                               [rank |-> "K", suit |-> "spades"]}
          /\ \A h \in {i, j} : {card.rank : card \in cards.hands[h]} = {"A", "2"}
          /\ determine_winner(game, cards).result = "split"
          /\ determine_winner(game, cards).names =
                <<game.players[Min(i, j)].name, game.players[Max(i, j)].name>>
          /\ determine_winner(game, cards).score = 14

\* C20: with exactly one active player determine_winner returns that player
\* as the winner by default, whatever anybody holds.
C20_SoleActiveWins ==
    ActiveCount(game) = 1 =>
        determine_winner(game, cards) =
            [result |-> "winner", names |-> <<game.players[FirstActive(game)].name>>,
             hand_type |-> "default_win", score |-> 0]

\* The one active player holds no card; a player that folded holds an Ace.
C20_Witness ==
    /\ game.is_active
    /\ ActiveCount(game) = 1
    /\ cards.hands[FirstActive(game)] = {}
    /\ \E j \in 1..Len(game.players) :
          /\ ~game.players[j].is_active
          /\ \E card \in cards.hands[j] : card.rank = "A"
    /\ determine_winner(game, cards).hand_type = "default_win"

C24_AllDelegate ==
    /\ \A name \in Names : join_game_endpoint(game, name, "ok").game = game
    /\ start_game_endpoint(game, "ok").game = game
    /\ end_game_endpoint(game, "ok").game = game
    /\ \A name \in Names, amount \in Amounts :
          place_bet_endpoint(game, name, amount, "ok").game = game
    /\ \A name \in Names : fold_endpoint(game, name, "ok").game = game

\* A game as start_game is to leave it: active, without players, chips,
\* turn order or community cards, at pre_flop, with a full deck.
StartedFresh ==
    /\ game.is_active
    /\ game.players = <<>>
    /\ game.pot = 0
    /\ game.current_bet = 0
    /\ game.current_turn_order = <<>>
    /\ game.current_turn_index = 0
    /\ game.current_stage = "pre_flop"
    /\ cards.community_cards = {}
    /\ cards.hands = <<>>
    /\ \A r \in Ranks, s \in Suits : [rank |-> r, suit |-> s] \in cards.deck
    /\ Cardinality(cards.deck) = Cardinality(Ranks) * Cardinality(Suits)

\* C25: whatever the state before it, start_game leaves a new game: active,
\* no players, pot 0, table bet 0, empty turn order, turn index 0, no
\* community cards, stage pre_flop and a full deck.
C25_StartReplaces == [][CardsStartGame => StartedFresh']_vars

\* The state start_game leaves, which no other handler leaves: a full deck
\* in an active game without players.
C25_Witness ==
    /\ StartedFresh
    /\ cards.deck = new_deck

\* C26: nothing of an ended game is seen by a later request: a join leaves
\* a game whose only player is the joiner, with pot 0 and table bet 0;
\* place_bet and fold answer 404 whoever they name; is_your_turn and
\* game_status find no player.
C26_EndedGameGone ==
    ~game.is_active =>
        /\ \A name \in Names :
              /\ join_game(game, name).status = 200
              /\ join_game(game, name).game.players =
                    <<[name |-> name, balance |-> 1000, current_bet |-> 0,
                       is_active |-> TRUE, is_all_in |-> FALSE, has_acted |-> FALSE]>>
              /\ join_game(game, name).game.pot = 0
              /\ join_game(game, name).game.current_bet = 0
              /\ join_game(game, name).game.current_turn_order = <<name>>
              /\ fold(game, name).status = 404
              /\ fold(game, name).game.players = <<>>
              /\ \A amount \in Amounts :
                    /\ place_bet(game, name, amount).status = 404
                    /\ place_bet(game, name, amount).game.players = <<>>
              /\ is_your_turn(game, name).game.players = <<>>
        /\ game_status(game).players = <<>>
        /\ game_status(game).current_bet = 0

\* A game of two players with a raised table bet and changed balances has
\* been ended.
C26_Witness ==
    /\ ~game.is_active
    /\ Len(game.players) = 2
    /\ game.current_bet = 1000
    /\ game.pot = 0
    /\ \E i \in 1..2 : game.players[i].balance # JoinBalance
    /\ place_bet(game, game.players[1].name, 300).status = 404

\* The number of rank x suit pairs.
PairCount == Cardinality(Ranks) * Cardinality(Suits)

\* C27: a newly built deck holds every rank x suit pair exactly once;
\* the cards drawn from its front are pairwise distinct, and when as many
\* are drawn as there are pairs every pair has been drawn and the deck is
\* empty.
C27_DeckComplete ==
    /\ \A capital \in BOOLEAN :
          LET d == build_deck(capital) IN
          /\ Len(d) = PairCount
          /\ \A r \in Ranks, s \in Suits :
                Cardinality({k \in 1..Len(d) :
                    d[k].rank = r /\ d[k].suit \in {s, capitalize(s)}}) = 1
    /\ \A a, b \in 1..Len(cards.drawn) : a # b => cards.drawn[a] # cards.drawn[b]
    /\ \A a \in 1..Len(cards.drawn), b \in 1..Len(cards.deck) :
          cards.drawn[a] # cards.deck[b]
    /\ Len(cards.drawn) + Len(cards.deck) = PairCount
    /\ Len(cards.drawn) = PairCount =>
          /\ cards.deck = <<>>
          /\ \A r \in Ranks, s \in Suits : \E a \in 1..Len(cards.drawn) :
                cards.drawn[a].rank = r /\ cards.drawn[a].suit \in {s, capitalize(s)}

\* Every card of a deck has been drawn, the Aces last.
C27_Witness ==
    /\ cards.deck = <<>>
    /\ Len(cards.drawn) = PairCount
    /\ cards.drawn[PairCount].rank = "A"
    /\ cards.drawn[PairCount - 1].rank = "A"

\* C28: there are never more than five community cards, and once there are
\* some, no community_cards, join, place_bet, fold or compare_cards on the
\* same game changes them (place_bet and fold touch no card of a game that
\* is active).
C28_CommunityFixed ==
    /\ Cardinality(cards.community_cards) \in 0..5
    /\ (game.is_active /\ cards.community_cards # {}) =>
          /\ \A c \in community_cards_deal(game, cards) :
                c.community_cards = cards.community_cards
          /\ \A name \in CardNames : \A c \in join_game_deal(game, cards, name) :
                c.community_cards = cards.community_cards
          /\ \A c \in compare_cards_deal(game, cards) :
                c.community_cards = cards.community_cards
          /\ get_cards(game, cards).community_cards = cards.community_cards

\* The community cards were dealt from a deck of four and are four; a later
\* join has built a new deck, from which no further community card comes.
C28_Witness ==
    /\ game.is_active
    /\ Cardinality(cards.community_cards) = 4
    /\ Cardinality(cards.deck) >= 4
    /\ Len(game.players) >= 2
    /\ \A c \in community_cards_deal(game, cards) : c = cards

\* C29: compare_cards on an active game leaves the pot, every player's
\* balance and current_bet, the turn order and the turn index as they were.
C29_CompareKeepsChips ==
    game.is_active =>
        /\ compare_cards(game).pot = game.pot
        /\ compare_cards(game).current_turn_order = game.current_turn_order
        /\ compare_cards(game).current_turn_index = game.current_turn_index
        /\ Len(compare_cards(game).players) = Len(game.players)
        /\ \A i \in 1..Len(game.players) :
              /\ compare_cards(game).players[i].balance = game.players[i].balance
              /\ compare_cards(game).players[i].current_bet = game.players[i].current_bet

\* Three active players and 1300 in the pot: a showdown at which the chips
\* stay where they are.
C29_Witness ==
    /\ game.is_active
    /\ ActiveCount(game) = 3
    /\ game.pot = 1300
    /\ game.current_turn_index = 2
    /\ compare_cards(game) = game

\* C30: in every reachable state the turn order has no duplicate name, every
\* name in it is the name of a player of the game, and every player named in
\* it is active.
C30_TurnOrderActive ==
    /\ \A i, j \in 1..Len(game.current_turn_order) :
          game.current_turn_order[i] = game.current_turn_order[j] => i = j
    /\ \A i \in 1..Len(game.current_turn_order) :
          \E k \in 1..Len(game.players) :
              game.players[k].name = game.current_turn_order[i]
    /\ \A i \in 1..Len(game.current_turn_order) :
          \A k \in 1..Len(game.players) :
              game.players[k].name = game.current_turn_order[i]
                  => game.players[k].is_active

\* Three players, one folded and left out of the order, the order holding
\* the other two after a rebuild.
C30_Witness ==
    /\ game.is_active
    /\ Len(game.players) = 3
    /\ Len(game.current_turn_order) = 2
    /\ \E k \in 1..3 : ~game.players[k].is_active
    /\ game.pot > 0

\* The names determine_winner reports for the table as it is.
Reported == {determine_winner(game, cards).names[k] :
                k \in 1..Len(determine_winner(game, cards).names)}

\* The table with the is_all_in flag of every player cleared.
NobodyAllIn ==
    [game EXCEPT !.players = [k \in 1..Len(game.players) |->
                                 [game.players[k] EXCEPT !.is_all_in = FALSE]]]

\* C21: determine_winner reports no folded player; with two or more active
\* players it reports no player holding fewer than 2 cards; it reports the
\* same winners whatever the is_all_in flags are, and an active player with
\* 2 cards and a high card no other such player beats is among them. The
\* single survivor fold pays is an active player, all-in or not, and never
\* the folder.
C21_WinnersEligible ==
    /\ \A i \in 1..Len(game.players) :
          game.players[i].name \in Reported => game.players[i].is_active
    /\ ActiveCount(game) >= 2 =>
          \A i \in 1..Len(game.players) :
              game.players[i].name \in Reported => Cardinality(cards.hands[i]) >= 2
    /\ determine_winner(NobodyAllIn, cards) = determine_winner(game, cards)
    /\ \A i \in Contenders :
          (\A j \in Contenders : \A theirs \in cards.hands[j] :
              \E mine \in cards.hands[i] :
                  RankValue(theirs.rank) <= RankValue(mine.rank))
              => game.players[i].name \in Reported
    /\ \A name \in CardNames :
          (fold(game, name).status = 200 /\ ActiveCount(fold(game, name).mid) = 1) =>
              /\ fold(game, name).winner # name
              /\ \A i \in 1..Len(game.players) :
                    fold(game, name).mid.players[i].is_active
                        <=> fold(game, name).mid.players[i].name = fold(game, name).winner

\* The only winner is an active player who is all-in and holds an ace, while
\* a folded player holds an ace as well and a third, active player holds one
\* card; a fold of the third leaves the first as the survivor.
C21_Witness ==
    /\ game.is_active
    /\ Len(game.players) = 3
    /\ \E i, j, k \in 1..3 :
          /\ game.players[i].is_active /\ game.players[i].is_all_in
          /\ Reported = {game.players[i].name}
          /\ \E card \in cards.hands[i] : card.rank = "A"
          /\ ~game.players[j].is_active
          /\ \E card \in cards.hands[j] : card.rank = "A"
          /\ game.players[k].is_active /\ Cardinality(cards.hands[k]) = 1
          /\ fold(game, game.players[k].name).winner = game.players[i].name

\* What a request makes of the game when its handler runs alone.
Handled(g, request) ==
    CASE request.op = "join_game" -> join_game(g, request.name).game
      [] request.op = "place_bet" -> place_bet(g, request.name, request.amount).game
      [] request.op = "fold" -> fold(g, request.name).game

BothDone == \A t \in DOMAIN threads.t : threads.t[t].pc = "done"

\* C22: when two requests (two bets, a bet and a fold, or two joins) have
\* been handled at the same time, the game is what handling them one after
\* the other, in one of the two orders, makes of the game they arrived in.
C22_Serializable ==
    (threads.t # <<>> /\ BothDone) =>
        \/ game = Handled(Handled(threads.start, threads.t[1].req), threads.t[2].req)
        \/ game = Handled(Handled(threads.start, threads.t[2].req), threads.t[1].req)

\* C31: every player who is active and not all-in is named in the turn
\* order (where there is one), and so comes to hold the turn as the accepted
\* bets advance it, a player who folded and was set active again included.
C31_ActiveInOrder ==
    game.current_turn_order # <<>> =>
        \A i \in 1..Len(game.players) :
            (game.players[i].is_active /\ ~game.players[i].is_all_in) =>
                \E k \in 1..Len(game.current_turn_order) :
                    game.current_turn_order[k] = game.players[i].name

\* The name that follows the name at the turn index in the turn order.
Successor(g) ==
    g.current_turn_order[((g.current_turn_index + 1) % Len(g.current_turn_order)) + 1]

\* C32: when the player holding the turn folds and two or more active
\* players remain, the turn goes to the player who followed the folder in
\* the turn order: that player is the next_turn of the fold.
C32_FolderSuccessor ==
    \A name \in Names :
        (/\ game.is_active
         /\ Len(game.current_turn_order) >= 2
         /\ CurrentName(game) = name
         /\ fold(game, name).status = 200
         /\ ActiveCount(fold(game, name).mid) >= 2)
            => CurrentName(fold(game, name).game) = Successor(game)

\* C33: when a player who does not hold the turn folds and two or more
\* active players remain, the player who held the turn before the fold holds
\* it after the fold, wherever the folder stood in the turn order.
C33_OtherFoldKeepsTurn ==
    \A name \in Names :
        (/\ game.is_active
         /\ CurrentName(game) # None
         /\ CurrentName(game) # name
         /\ IndexOf(game.current_turn_order, name) # 0
         /\ fold(game, name).status = 200
         /\ ActiveCount(fold(game, name).mid) >= 2)
            => CurrentName(fold(game, name).game) = CurrentName(game)

\* C34: place_bet does not ask whose turn it is. A positive bet by any
\* player of an active game is accepted, and the next_turn it reports is the
\* name one step, cyclically, after the turn index before the call, wherever
\* the bettor stands in the turn order.
C34_BetOutOfTurn ==
    \A name \in Names, amount \in {a \in Amounts : a > 0} :
        (game.is_active /\ find_player_by_name(game, name) # 0) =>
            LET r == place_bet(game, name, amount)
            IN /\ r.status = 200
               /\ r.game.current_turn_order # <<>>
               /\ r.game.current_turn_index =
                     (game.current_turn_index + 1) % Len(r.game.current_turn_order)
               /\ CurrentName(r.game) =
                     r.game.current_turn_order[r.game.current_turn_index + 1]
               /\ game.current_turn_order # <<>> =>
                     /\ r.game.current_turn_order = game.current_turn_order
                     /\ CurrentName(r.game) = Successor(game)

\* Three names in the turn order, the turn on the last of them and chips in
\* the pot: a bet of 300 by the first is accepted and the turn wraps round to
\* the first.
C34_Witness ==
    /\ game.is_active
    /\ game.pot > 0
    /\ Len(game.current_turn_order) = 3
    /\ game.current_turn_index = 2
    /\ place_bet(game, game.current_turn_order[1], 300).status = 200
    /\ CurrentName(place_bet(game, game.current_turn_order[1], 300).game)
          = game.current_turn_order[1]

\* C35: a second fold by a player who has folded leaves the pot, every
\* balance, the turn order and the turn index as the first fold left them.
C35_FoldIdempotent ==
    \A name \in Names :
        LET first == fold(game, name).game
            second == fold(first, name).game
        IN (game.is_active /\ fold(game, name).status = 200) =>
              /\ second.pot = first.pot
              /\ \A i \in 1..Len(first.players) :
                    second.players[i].balance = first.players[i].balance
              /\ second.current_turn_order = first.current_turn_order
              /\ second.current_turn_index = first.current_turn_index

RECURSIVE SumBalances(_)
SumBalances(ps) ==
    IF ps = <<>> THEN 0 ELSE Head(ps).balance + SumBalances(Tail(ps))

\* C37: over the joins, bets and folds of one game the pot and the balances
\* add up to 1000 for every player plus the chips the top-ups have added,
\* where a bet of a on a balance b < a adds max(1000, 2a) - b.
C37_ChipsConserved ==
    game.is_active =>
        game.pot + SumBalances(game.players)
            = 1000 * Len(game.players) + acct.topups

\* A bet exceeded the balance and was topped up, and a fold has paid the pot
\* to the survivor.
C37_Witness ==
    /\ game.is_active
    /\ acct.topups = 1300
    /\ acct.paid = 1300
    /\ game.pot = 0
    /\ SumBalances(game.players) = 1000 * Len(game.players) + 1300

\* The player list and the turn order of the game both name the player.
Seated(g, name) ==
    /\ find_player_by_name(g, name) # 0
    /\ IndexOf(g.current_turn_order, name) # 0

\* C38: when two joins with different names have been handled at the same
\* time on an inactive game and both have answered success, both players are
\* in the player list and in the turn order of the current game.
C38_BothJoined ==
    (/\ threads.t # <<>>
     /\ BothDone
     /\ ~threads.start.is_active
     /\ \A t \in RaceThreads : threads.t[t].req.op = "join_game"
     /\ \A t \in RaceThreads : threads.t[t].status = 200
     /\ threads.t[1].req.name # threads.t[2].req.name)
        => /\ Seated(game, threads.t[1].req.name)
           /\ Seated(game, threads.t[2].req.name)

\* C39: compare_cards on an active game ends in no fault: it answers with a
\* winner or a split pot, and with the report that there is no winner when
\* no player is active.
C39_CompareAnswers ==
    game.is_active =>
        compare_cards_answers(game, cards) \subseteq
            {"Winner determined", "Split pot", "No winner"}

====
